---- MODULE Spec2Model ----
(***************************************************************************)
(* Model of foreman_subnet.py: the ensure() reconciliation of one subnet   *)
(* against a Foreman server, together with the comparison helpers          *)
(* domains_equal / subnets_equal and the reference resolution of           *)
(* get_resources / prepare_data.                                           *)
(*                                                                         *)
(* Python values are represented as follows.                               *)
(*   None (scalar position)     the string None                            *)
(*   an optional list           [isNone |-> BOOLEAN, items |-> sequence]   *)
(*   an optional record         <<>> (None / falsy) or <<record>>          *)
(*   a dict                     a function from key strings to values      *)
(***************************************************************************)
EXTENDS Integers, Sequences, FiniteSets, TLC

VARIABLES remote, nextId, pc, params, data, subnet, calls, result,
          compared, pre, repeat

vars == <<remote, nextId, pc, params, data, subnet, calls, result,
          compared, pre, repeat>>

----------------------------------------------------------------------------
(* Bounds *)

\* ids the server may hand out: an invocation starts only while one is left
MaxId == 3

\* longest list of domain records compared in the domains_equal specification
MaxLen == 2

----------------------------------------------------------------------------
(* Python values *)

None == "<None>"

NoneList == [isNone |-> TRUE, items |-> <<>>]

SomeList(l) == [isNone |-> FALSE, items |-> l]

\* truth value of an optional list: None and [] are falsy
TruthyList(o) == (~o.isNone) /\ o.items # <<>>

\* truth value of an optional string: None and '' are falsy
TruthyStr(s) == s # None /\ s # ""

\* dict.get(key, None)
Get(d, key) == IF key \in DOMAIN d THEN d[key] ELSE None

\* d[key] = value on a dict
Put(d, key, value) == [k \in (DOMAIN d) \cup {key} |-> IF k = key THEN value ELSE d[k]]

Range(s) == {s[i] : i \in 1..Len(s)}

Min(S) == CHOOSE x \in S : \A y \in S : x <= y

----------------------------------------------------------------------------
(* The remote catalogue of referenced entities (never changed by ensure) *)

Catalogue ==
  [domains       |-> {[id |-> "d1", name |-> "a"], [id |-> "d2", name |-> "b"]},
   organizations |-> {[id |-> "o1", name |-> "Dalek Inc"]},
   locations     |-> {[id |-> "l1", name |-> "Tardis"]},
   smart_proxies |-> {[id |-> "p1", name |-> "proxy1"]}]

\* theforeman.search_resource(resource_type, {'name': name}): a record or None
search_resource(resource_type, name) ==
  LET hits == {r \in Catalogue[resource_type] : r.name = name}
  IN  IF hits = {} THEN <<>> ELSE <<CHOOSE r \in hits : TRUE>>

\* the entity of a type with a given id, as the server expands an *_ids field
ById(resource_type, id) ==
  IF \E r \in Catalogue[resource_type] : r.id = id
  THEN CHOOSE r \in Catalogue[resource_type] : r.id = id
  ELSE [id |-> id, name |-> None]

----------------------------------------------------------------------------
(* Call log and outcomes *)

\* one remote call: the operation, the resource type, the name or id it is
\* about, and how it ended ("ok", "none": nothing found, "raised": ForemanError)
Call(op, type, arg, id, out) == [op |-> op, type |-> type, arg |-> arg, id |-> id, out |-> out]

LookupOps == {"search_resource"}
ReadOps == {"search_subnet", "get_subnet"}
MutatingOps == {"create_subnet", "update_subnet", "delete_subnet"}

NoError == [msg |-> "", resource_type |-> "", spec |-> ""]

\* module.fail_json(msg=...): the message, and the resource type and spec it names
Error(msg, resource_type, spec) == [msg |-> msg, resource_type |-> resource_type, spec |-> spec]

NoResult == [kind |-> "none", changed |-> FALSE, subnet |-> <<>>, err |-> NoError]

\* module.exit_json(changed=changed, subnet=subnet)
exit_json(changed, s) == [kind |-> "ok", changed |-> changed, subnet |-> s, err |-> NoError]

\* module.fail_json(msg=...): the invocation ends, no changed flag is returned
fail_json(err) == [kind |-> "error", changed |-> FALSE, subnet |-> <<>>, err |-> err]

\* an exception nobody catches ends the invocation with a module failure
uncaught(exc) == [kind |-> "error", changed |-> FALSE, subnet |-> <<>>, err |-> Error(exc, "", "")]

----------------------------------------------------------------------------
(* Comparison helpers *)

Names(l) == [i \in 1..Len(l) |-> l[i].name]

\* a fixed total order on the names in use, standing for Python's string order
NameOrder == <<"Dalek Inc", "Tardis", "a", "b", "ox", "proxy1", "px", "x">>

Rank(n) == CHOOSE i \in 1..Len(NameOrder) : NameOrder[i] = n

RECURSIVE Insert(_, _)
Insert(x, l) ==
  IF l = <<>> THEN <<x>>
  ELSE IF Rank(x) <= Rank(Head(l)) THEN <<x>> \o l
  ELSE <<Head(l)>> \o Insert(x, Tail(l))

\* sorted(l): a new sorted list (duplicates kept)
RECURSIVE sorted(_)
sorted(l) == IF l = <<>> THEN <<>> ELSE Insert(Head(l), sorted(Tail(l)))

\* the value of the expression  list(...).sort() : the list is sorted in
\* place and the expression evaluates to None
list_sort(l) == None

Returns(v) == [raises |-> FALSE, value |-> v]

Raises == [raises |-> TRUE, value |-> FALSE]

\* map(lambda d: d['name'], None) raises TypeError; otherwise both operands of
\* != are the value of .sort()
domains_equal(d, s) ==
  IF d["domains"].isNone THEN Raises
  ELSE LET data_domains == list_sort(Names(d["domains"].items))
           subnet_domains == list_sort(Names(s["domains"]))
       IN  IF data_domains # subnet_domains THEN Returns(FALSE) ELSE Returns(TRUE)

\* names of the organizations / locations the desired data refers to
DataNames(d, id_key, resource_type) ==
  IF id_key \in DOMAIN d
  THEN [i \in 1..Len(d[id_key]) |-> ById(resource_type, d[id_key][i]).name]
  ELSE <<>>

organizations_equal(d, s) ==
  sorted(DataNames(d, "organization_ids", "organizations")) = sorted(Names(s["organizations"]))

locations_equal(d, s) ==
  sorted(DataNames(d, "location_ids", "locations")) = sorted(Names(s["locations"]))

comparable_keys ==
  {"name", "dns_primary", "dns_secondary", "gateway", "ipam", "boot_mode", "mask",
   "network", "vlanid", "from", "to", "tftp_id", "dns_id", "dhcp_id", "discovery_id"}

subnets_equal(d, s) ==
  IF ~(\A key \in comparable_keys : Get(d, key) = Get(s, key)) THEN Returns(FALSE)
  ELSE IF domains_equal(d, s).raises THEN Raises
  ELSE IF ~domains_equal(d, s).value THEN Returns(FALSE)
  ELSE IF ~organizations_equal(d, s) THEN Returns(FALSE)
  ELSE IF ~locations_equal(d, s) THEN Returns(FALSE)
  ELSE Returns(TRUE)

----------------------------------------------------------------------------
(* Reference resolution *)

\* get_resources without the "if not resource" check: an unknown name is
\* appended as an empty resource
get_resources_unchecked(resource_type, resource_specs, raise_at) ==
  LET n == Len(resource_specs)
      stop == IF raise_at \in 1..n THEN raise_at ELSE 0
      made == IF stop = 0 THEN n ELSE stop
      found(i) == search_resource(resource_type, resource_specs[i])
  IN  [ok     |-> stop = 0,
       result |-> IF stop = 0
                  THEN [i \in 1..n |-> IF found(i) = <<>>
                                       THEN [id |-> None, name |-> resource_specs[i]]
                                       ELSE found(i)[1]]
                  ELSE <<>>,
       calls  |-> [i \in 1..made |->
                     Call("search_resource", resource_type, resource_specs[i], 0,
                          IF i = raise_at THEN "raised"
                          ELSE IF found(i) = <<>> THEN "none" ELSE "ok")],
       err    |-> IF stop = 0 THEN NoError
                  ELSE Error("Could not search resource type", resource_type, resource_specs[stop])]

\* raise_at: the index of the search call that raises ForemanError (0: none)
get_resources(resource_type, resource_specs, raise_at) ==
  LET n == Len(resource_specs)
      bad == {i \in 1..n : i = raise_at
                           \/ search_resource(resource_type, resource_specs[i]) = <<>>}
      stop == IF bad = {} THEN 0 ELSE Min(bad)
      made == IF stop = 0 THEN n ELSE stop
  IN  [ok     |-> stop = 0,
       result |-> IF stop = 0
                  THEN [i \in 1..n |-> search_resource(resource_type, resource_specs[i])[1]]
                  ELSE <<>>,
       calls  |-> [i \in 1..made |->
                     Call("search_resource", resource_type, resource_specs[i], 0,
                          IF i = raise_at THEN "raised"
                          ELSE IF search_resource(resource_type, resource_specs[i]) = <<>>
                          THEN "none" ELSE "ok")],
       err    |-> IF stop = 0 THEN NoError
                  ELSE IF stop = raise_at
                  THEN Error("Could not search resource type", resource_type, resource_specs[stop])
                  ELSE Error("Could not find resource type", resource_type, resource_specs[stop])]

\* get_organization_ids / get_location_ids: the ids of the named entities
get_resource_ids(resource_type, names, raise_at) ==
  LET r == get_resources(resource_type, names, raise_at)
  IN  [r EXCEPT !.result = [i \in 1..Len(r.result) |-> r.result[i].id]]

get_organization_ids(organizations, raise_at) ==
  get_resource_ids("organizations", organizations, raise_at)

get_location_ids(locations, raise_at) ==
  get_resource_ids("locations", locations, raise_at)

proxy_types == <<"dns", "dhcp", "tftp", "discovery">>

ProxyKey == [dns |-> "dns_proxy", dhcp |-> "dhcp_proxy", tftp |-> "tftp_proxy",
             discovery |-> "discovery_proxy"]

IdKey == [dns |-> "dns_id", dhcp |-> "dhcp_id", tftp |-> "tftp_id",
          discovery |-> "discovery_id"]

\* the loop over the proxy types of prepare_data
RECURSIVE resolve_proxies(_, _, _, _)
resolve_proxies(d, types, p, raise_at) ==
  IF types = <<>> THEN [ok |-> TRUE, data |-> d, calls |-> <<>>, err |-> NoError]
  ELSE LET key == ProxyKey[Head(types)]
           id_key == IdKey[Head(types)]
       IN  IF ~TruthyStr(p[key])
           THEN resolve_proxies(Put(d, id_key, None), Tail(types), p, raise_at)
           ELSE LET r == get_resources("smart_proxies", <<p[key]>>, raise_at)
                IN  IF ~r.ok THEN [ok |-> FALSE, data |-> d, calls |-> r.calls, err |-> r.err]
                    ELSE LET rest == resolve_proxies(Put(d, id_key, r.result[1].id),
                                                     Tail(types), p, raise_at - 1)
                         IN  [rest EXCEPT !.calls = r.calls \o rest.calls]

copied_keys == {"dns_primary", "dns_secondary", "gateway", "ipam", "boot_mode", "mask",
                "network", "vlanid", "domains"}

\* prepare_data with data['from'] taken from ip_to
prepare_data_from_ip_to(d, p, raise_at) ==
  LET d1 == [k \in (DOMAIN d) \cup copied_keys \cup {"from", "to"} |->
               IF k \in copied_keys THEN p[k]
               ELSE IF k = "from" THEN p["ip_to"]
               ELSE IF k = "to" THEN p["ip_to"]
               ELSE d[k]]
  IN  IF TruthyList(p["domains"])
      THEN LET r == get_resources("domains", p["domains"].items, raise_at)
           IN  IF ~r.ok THEN [ok |-> FALSE, data |-> d1, calls |-> r.calls, err |-> r.err]
               ELSE LET rest == resolve_proxies(Put(d1, "domains", SomeList(r.result)),
                                                proxy_types, p, raise_at - Len(r.calls))
                    IN  [rest EXCEPT !.calls = r.calls \o rest.calls]
      ELSE resolve_proxies(d1, proxy_types, p, raise_at)

prepare_data(d, p, raise_at) ==
  LET d1 == [k \in (DOMAIN d) \cup copied_keys \cup {"from", "to"} |->
               IF k \in copied_keys THEN p[k]
               ELSE IF k = "from" THEN p["ip_from"]
               ELSE IF k = "to" THEN p["ip_to"]
               ELSE d[k]]
  IN  IF TruthyList(p["domains"])
      THEN LET r == get_resources("domains", p["domains"].items, raise_at)
           IN  IF ~r.ok THEN [ok |-> FALSE, data |-> d1, calls |-> r.calls, err |-> r.err]
               ELSE LET rest == resolve_proxies(Put(d1, "domains", SomeList(r.result)),
                                                proxy_types, p, raise_at - Len(r.calls))
                    IN  [rest EXCEPT !.calls = r.calls \o rest.calls]
      ELSE resolve_proxies(d1, proxy_types, p, raise_at)

\* number of search calls prepare_data makes when every reference resolves
PrepareLookups(p) ==
  (IF TruthyList(p["domains"]) THEN Len(p["domains"].items) ELSE 0)
  + Cardinality({i \in 1..Len(proxy_types) : TruthyStr(p[ProxyKey[proxy_types[i]]])})

----------------------------------------------------------------------------
(* The remote subnets *)

\* the record the server keeps for data written by create_subnet / update_subnet
Stored(d, id) ==
  [k \in comparable_keys \cup {"id", "domains", "organizations", "locations"} |->
     IF k = "id" THEN id
     ELSE IF k = "domains" THEN d["domains"].items
     ELSE IF k = "organizations"
          THEN IF "organization_ids" \in DOMAIN d
               THEN [i \in 1..Len(d["organization_ids"]) |->
                       ById("organizations", d["organization_ids"][i])]
               ELSE <<>>
     ELSE IF k = "locations"
          THEN IF "location_ids" \in DOMAIN d
               THEN [i \in 1..Len(d["location_ids"]) |-> ById("locations", d["location_ids"][i])]
               ELSE <<>>
     ELSE Get(d, k)]

\* theforeman.search_subnet(data={'name': name}): a record or None
search_subnet(name) ==
  LET hits == {r \in remote : r["name"] = name}
  IN  IF hits = {} THEN <<>>
      ELSE <<CHOOSE r \in hits : \A q \in hits : r["id"] <= q["id"]>>

\* theforeman.get_subnet(id=id)
get_subnet(id) == CHOOSE r \in remote : r["id"] = id

----------------------------------------------------------------------------
(* Invocation parameters (module.params) *)

\* the argument_spec defaults, with the required name
DefaultParams(name) ==
  [name |-> name, state |-> "present",
   dns_primary |-> None, dns_secondary |-> None, gateway |-> None, ipam |-> None,
   boot_mode |-> "DHCP", mask |-> None, network |-> None, vlanid |-> None,
   ip_from |-> None, ip_to |-> None,
   domains |-> NoneList, organizations |-> NoneList, locations |-> NoneList,
   dhcp_proxy |-> None, dns_proxy |-> None, discovery_proxy |-> None, tftp_proxy |-> None]

\* the subnet of the module's EXAMPLES, with one existing domain
BaseParams ==
  [DefaultParams("net1") EXCEPT !.network = "192.168.123.0", !.mask = "255.255.255.0",
                                !.domains = SomeList(<<"a">>)]

DomainChoices ==
  {NoneList, SomeList(<<>>), SomeList(<<"b">>), SomeList(<<"a", "b">>),
   SomeList(<<"b", "a">>), SomeList(<<"x">>), SomeList(<<"a", "x">>)}

PresentParams ==
  {BaseParams}
  \cup {[BaseParams EXCEPT !.domains = l] : l \in DomainChoices}
  \cup {[BaseParams EXCEPT !.vlanid = "123", !.boot_mode = "Static", !.ip_from = "192.168.123.3"],
        [BaseParams EXCEPT !.vlanid = "123", !.domains = NoneList],
        [BaseParams EXCEPT !.organizations = SomeList(<<"Dalek Inc">>)],
        [BaseParams EXCEPT !.organizations = SomeList(<<"ox">>)],
        [BaseParams EXCEPT !.locations = SomeList(<<"Tardis">>)],
        [BaseParams EXCEPT !.locations = SomeList(<<"ox">>)],
        [BaseParams EXCEPT !.dns_proxy = "proxy1"],
        [BaseParams EXCEPT !.dhcp_proxy = "px"],
        [BaseParams EXCEPT !.tftp_proxy = "proxy1", !.discovery_proxy = "px"],
        DefaultParams("net2")}

DesiredStates ==
  PresentParams \cup {[p EXCEPT !.state = "absent"] : p \in PresentParams}

----------------------------------------------------------------------------
(* ensure(module) *)

\* ensure with the references resolved before the current subnet is read
StepOrder_resolve_first == <<"orgs", "locs", "prepare", "search", "decide">>

\* the order of the remote phases of ensure: the read of the current subnet,
\* the organization ids, the location ids, prepare_data, then the decision
StepOrder == <<"search", "orgs", "locs", "prepare", "decide">>

After(p) == StepOrder[(CHOOSE i \in 1..Len(StepOrder) : StepOrder[i] = p) + 1]

Init ==
  /\ remote = {}
  /\ nextId = 1
  /\ pc = "idle"
  /\ params = DefaultParams("net1")
  /\ data = [k \in {"name"} |-> "net1"]
  /\ subnet = <<>>
  /\ calls = <<>>
  /\ result = NoResult
  /\ compared = <<>>
  /\ pre = {}
  /\ repeat = FALSE

\* main() up to the first remote call: a new invocation with desired state D
Invoke(D) ==
  /\ pc \in {"idle", "done"}
  /\ nextId <= MaxId
  /\ params' = D
  /\ data' = [k \in {"name"} |-> D.name]
  /\ subnet' = <<>>
  /\ calls' = <<>>
  /\ result' = NoResult
  /\ compared' = <<>>
  /\ pre' = remote
  /\ repeat' = (pc = "done" /\ result.kind = "ok" /\ params = D)
  /\ pc' = StepOrder[1]
  /\ UNCHANGED <<remote, nextId>>

\* an invocation ends with fail_json or an uncaught exception
Abort(r, made) ==
  /\ result' = r
  /\ calls' = calls \o made
  /\ pc' = "done"

\* search_subnet, then get_subnet when a subnet was found
SearchSubnet(raises) ==
  /\ pc = "search"
  /\ LET found == search_subnet(data["name"])
         c1 == Call("search_subnet", "subnets", data["name"], 0,
                    IF raises = "search" THEN "raised"
                    ELSE IF found = <<>> THEN "none" ELSE "ok")
     IN  IF raises = "search"
         THEN /\ Abort(fail_json(Error("Could not get subnet", "", "")), <<c1>>)
              /\ UNCHANGED subnet
         ELSE IF found = <<>>
         THEN /\ raises = "none"
              /\ subnet' = <<>>
              /\ calls' = calls \o <<c1>>
              /\ pc' = After("search")
              /\ UNCHANGED result
         ELSE LET c2 == Call("get_subnet", "subnets", "", found[1]["id"],
                              IF raises = "get" THEN "raised" ELSE "ok")
              IN  IF raises = "get"
                  THEN /\ Abort(fail_json(Error("Could not get subnet", "", "")), <<c1, c2>>)
                       /\ UNCHANGED subnet
                  ELSE /\ subnet' = <<get_subnet(found[1]["id"])>>
                       /\ calls' = calls \o <<c1, c2>>
                       /\ pc' = After("search")
                       /\ UNCHANGED result
  /\ UNCHANGED <<remote, nextId, params, data, compared, pre, repeat>>

\* if organizations: data['organization_ids'] = get_organization_ids(...)
GetOrganizationIds(raise_at) ==
  /\ pc = "orgs"
  /\ IF TruthyList(params.organizations)
     THEN /\ raise_at <= Len(params.organizations.items)
          /\ LET r == get_organization_ids(params.organizations.items, raise_at)
             IN  IF r.ok
                 THEN /\ data' = Put(data, "organization_ids", r.result)
                      /\ calls' = calls \o r.calls
                      /\ pc' = After("orgs")
                      /\ UNCHANGED result
                 ELSE /\ Abort(fail_json(r.err), r.calls)
                      /\ UNCHANGED data
     ELSE /\ raise_at = 0
          /\ pc' = After("orgs")
          /\ UNCHANGED <<data, calls, result>>
  /\ UNCHANGED <<remote, nextId, params, subnet, compared, pre, repeat>>

\* if locations: data['location_ids'] = get_location_ids(...)
GetLocationIds(raise_at) ==
  /\ pc = "locs"
  /\ IF TruthyList(params.locations)
     THEN /\ raise_at <= Len(params.locations.items)
          /\ LET r == get_location_ids(params.locations.items, raise_at)
             IN  IF r.ok
                 THEN /\ data' = Put(data, "location_ids", r.result)
                      /\ calls' = calls \o r.calls
                      /\ pc' = After("locs")
                      /\ UNCHANGED result
                 ELSE /\ Abort(fail_json(r.err), r.calls)
                      /\ UNCHANGED data
     ELSE /\ raise_at = 0
          /\ pc' = After("locs")
          /\ UNCHANGED <<data, calls, result>>
  /\ UNCHANGED <<remote, nextId, params, subnet, compared, pre, repeat>>

\* data = prepare_data(data, module, theforeman)
PrepareData(raise_at) ==
  /\ pc = "prepare"
  /\ raise_at <= PrepareLookups(params)
  /\ LET r == prepare_data(data, params, raise_at)
     IN  IF r.ok
         THEN /\ data' = r.data
              /\ calls' = calls \o r.calls
              /\ pc' = After("prepare")
              /\ UNCHANGED result
         ELSE /\ Abort(fail_json(r.err), r.calls)
              /\ UNCHANGED data
  /\ UNCHANGED <<remote, nextId, params, subnet, compared, pre, repeat>>

\* create_subnet whenever state == 'present', whether or not a subnet was found
CreateSubnet_ignores_subnet(raises) ==
  /\ pc = "decide"
  /\ params.state = "present"
  /\ LET c == Call("create_subnet", "subnets", data["name"], 0,
                   IF raises THEN "raised" ELSE "ok")
     IN  IF raises
         THEN /\ Abort(fail_json(Error("Could not create subnet", "", "")), <<c>>)
              /\ UNCHANGED <<remote, nextId, subnet>>
         ELSE /\ remote' = remote \cup {Stored(data, nextId)}
              /\ nextId' = nextId + 1
              /\ subnet' = <<Stored(data, nextId)>>
              /\ result' = exit_json(TRUE, <<Stored(data, nextId)>>)
              /\ calls' = calls \o <<c>>
              /\ pc' = "done"
  /\ UNCHANGED <<params, data, compared, pre, repeat>>

\* create_subnet whenever no subnet was found, whatever the state
CreateSubnet_ignores_state(raises) ==
  /\ pc = "decide"
  /\ subnet = <<>>
  /\ LET c == Call("create_subnet", "subnets", data["name"], 0,
                   IF raises THEN "raised" ELSE "ok")
     IN  IF raises
         THEN /\ Abort(fail_json(Error("Could not create subnet", "", "")), <<c>>)
              /\ UNCHANGED <<remote, nextId, subnet>>
         ELSE /\ remote' = remote \cup {Stored(data, nextId)}
              /\ nextId' = nextId + 1
              /\ subnet' = <<Stored(data, nextId)>>
              /\ result' = exit_json(TRUE, <<Stored(data, nextId)>>)
              /\ calls' = calls \o <<c>>
              /\ pc' = "done"
  /\ UNCHANGED <<params, data, compared, pre, repeat>>

\* if not subnet and state == 'present': create_subnet
CreateSubnet(raises) ==
  /\ pc = "decide"
  /\ subnet = <<>>
  /\ params.state = "present"
  /\ LET c == Call("create_subnet", "subnets", data["name"], 0,
                   IF raises THEN "raised" ELSE "ok")
     IN  IF raises
         THEN /\ Abort(fail_json(Error("Could not create subnet", "", "")), <<c>>)
              /\ UNCHANGED <<remote, nextId, subnet>>
         ELSE /\ remote' = remote \cup {Stored(data, nextId)}
              /\ nextId' = nextId + 1
              /\ subnet' = <<Stored(data, nextId)>>
              /\ result' = exit_json(TRUE, <<Stored(data, nextId)>>)
              /\ calls' = calls \o <<c>>
              /\ pc' = "done"
  /\ UNCHANGED <<params, data, compared, pre, repeat>>

\* delete_subnet followed by "return False, subnet"
DeleteSubnet_reports_unchanged(raises) ==
  /\ pc = "decide"
  /\ subnet # <<>>
  /\ params.state = "absent"
  /\ LET c == Call("delete_subnet", "subnets", "", subnet[1]["id"],
                   IF raises THEN "raised" ELSE "ok")
     IN  IF raises
         THEN /\ Abort(fail_json(Error("Could not delete subnet", "", "")), <<c>>)
              /\ UNCHANGED <<remote, subnet>>
         ELSE /\ remote' = {r \in remote : r["id"] # subnet[1]["id"]}
              /\ subnet' = subnet
              /\ result' = exit_json(FALSE, subnet)
              /\ calls' = calls \o <<c>>
              /\ pc' = "done"
  /\ UNCHANGED <<nextId, params, data, compared, pre, repeat>>

\* if subnet and state == 'absent': delete_subnet
DeleteSubnet(raises) ==
  /\ pc = "decide"
  /\ subnet # <<>>
  /\ params.state = "absent"
  /\ LET c == Call("delete_subnet", "subnets", "", subnet[1]["id"],
                   IF raises THEN "raised" ELSE "ok")
     IN  IF raises
         THEN /\ Abort(fail_json(Error("Could not delete subnet", "", "")), <<c>>)
              /\ UNCHANGED <<remote, subnet>>
         ELSE /\ remote' = {r \in remote : r["id"] # subnet[1]["id"]}
              /\ subnet' = subnet
              /\ result' = exit_json(TRUE, subnet)
              /\ calls' = calls \o <<c>>
              /\ pc' = "done"
  /\ UNCHANGED <<nextId, params, data, compared, pre, repeat>>

\* update_subnet with the ForemanError swallowed: changed = true either way
UpdateSubnet_swallows_error(raises) ==
  /\ pc = "decide"
  /\ subnet # <<>>
  /\ params.state # "absent"
  /\ subnets_equal(data, subnet[1]) = Returns(FALSE)
  /\ compared' = <<subnets_equal(data, subnet[1])>>
  /\ LET id == subnet[1]["id"]
         c == Call("update_subnet", "subnets", "", id, IF raises THEN "raised" ELSE "ok")
     IN  /\ remote' = IF raises THEN remote
                      ELSE {r \in remote : r["id"] # id} \cup {Stored(data, id)}
         /\ subnet' = IF raises THEN subnet ELSE <<Stored(data, id)>>
         /\ result' = exit_json(TRUE, subnet')
         /\ calls' = calls \o <<c>>
         /\ pc' = "done"
  /\ UNCHANGED <<nextId, params, data, pre, repeat>>

\* if subnet and not subnets_equal(data, subnet): update_subnet
UpdateSubnet(raises) ==
  /\ pc = "decide"
  /\ subnet # <<>>
  /\ params.state # "absent"
  /\ subnets_equal(data, subnet[1]) = Returns(FALSE)
  /\ compared' = <<subnets_equal(data, subnet[1])>>
  /\ LET id == subnet[1]["id"]
         c == Call("update_subnet", "subnets", "", id, IF raises THEN "raised" ELSE "ok")
     IN  IF raises
         THEN /\ Abort(fail_json(Error("Could not update subnet", "", "")), <<c>>)
              /\ UNCHANGED <<remote, subnet>>
         ELSE /\ remote' = {r \in remote : r["id"] # id} \cup {Stored(data, id)}
              /\ subnet' = <<Stored(data, id)>>
              /\ result' = exit_json(TRUE, <<Stored(data, id)>>)
              /\ calls' = calls \o <<c>>
              /\ pc' = "done"
  /\ UNCHANGED <<nextId, params, data, pre, repeat>>

\* return False, subnet
ReturnUnchanged ==
  /\ pc = "decide"
  /\ \/ /\ subnet = <<>>
        /\ params.state # "present"
        /\ compared' = <<>>
     \/ /\ subnet # <<>>
        /\ params.state # "absent"
        /\ subnets_equal(data, subnet[1]) = Returns(TRUE)
        /\ compared' = <<subnets_equal(data, subnet[1])>>
  /\ result' = exit_json(FALSE, subnet)
  /\ pc' = "done"
  /\ UNCHANGED <<remote, nextId, params, data, subnet, calls, pre, repeat>>

\* subnets_equal raises TypeError, which ensure does not catch
UncaughtTypeError ==
  /\ pc = "decide"
  /\ subnet # <<>>
  /\ params.state # "absent"
  /\ subnets_equal(data, subnet[1]).raises
  /\ compared' = <<subnets_equal(data, subnet[1])>>
  /\ Abort(uncaught("TypeError"), <<>>)
  /\ UNCHANGED <<remote, nextId, params, data, subnet, pre, repeat>>

Next ==
  \/ \E D \in DesiredStates : Invoke(D)
  \/ \E raises \in {"none", "search", "get"} : SearchSubnet(raises)
  \/ \E raise_at \in 0..2 : GetOrganizationIds(raise_at)
  \/ \E raise_at \in 0..2 : GetLocationIds(raise_at)
  \/ \E raise_at \in 0..6 : PrepareData(raise_at)
  \/ \E raises \in BOOLEAN : CreateSubnet(raises)
  \/ \E raises \in BOOLEAN : DeleteSubnet(raises)
  \/ \E raises \in BOOLEAN : UpdateSubnet(raises)
  \/ ReturnUnchanged
  \/ UncaughtTypeError

Spec == Init /\ [][Next]_vars

----------------------------------------------------------------------------
(* domains_equal on its own: every pair of a desired domains value and a    *)
(* remote domains list, up to MaxLen entries                                *)

RECURSIVE SeqsUpTo(_, _)
SeqsUpTo(S, n) ==
  IF n = 0 THEN {<<>>}
  ELSE SeqsUpTo(S, n - 1) \cup {Append(l, x) : l \in SeqsUpTo(S, n - 1), x \in S}

DomainLists == SeqsUpTo(Catalogue["domains"], MaxLen)

InitEq ==
  /\ remote = {}
  /\ nextId = 1
  /\ pc = "compare"
  /\ params = DefaultParams("net1")
  /\ data \in {[k \in {"domains"} |-> o] : o \in {NoneList} \cup {SomeList(l) : l \in DomainLists}}
  /\ subnet \in {<<[k \in {"domains"} |-> l]>> : l \in DomainLists}
  /\ calls = <<>>
  /\ result = NoResult
  /\ compared = <<>>
  /\ pre = {}
  /\ repeat = FALSE

CompareDomains ==
  /\ pc = "compare"
  /\ compared' = <<domains_equal(data, subnet[1])>>
  /\ pc' = "compared"
  /\ UNCHANGED <<remote, nextId, params, data, subnet, calls, result, pre, repeat>>

NextEq == CompareDomains

SpecEq == InitEq /\ [][NextEq]_vars

----------------------------------------------------------------------------
(* Vocabulary of the properties *)

Finished == pc = "done"

MutatingCalls == {i \in 1..Len(calls) : calls[i].op \in MutatingOps}

ClientRaised == \E i \in 1..Len(calls) : calls[i].out = "raised"

\* the subnets named name when the invocation started
Existing(name) == {r \in pre : r["name"] = name}

\* the references a desired state names, as <<resource type, name>>
References(p) ==
  {<<"domains", n>> : n \in IF TruthyList(p.domains) THEN Range(p.domains.items) ELSE {}}
  \cup {<<"organizations", n>> :
          n \in IF TruthyList(p.organizations) THEN Range(p.organizations.items) ELSE {}}
  \cup {<<"locations", n>> :
          n \in IF TruthyList(p.locations) THEN Range(p.locations.items) ELSE {}}
  \cup {<<"smart_proxies", p[ProxyKey[proxy_types[i]]]>> :
          i \in {j \in 1..Len(proxy_types) : TruthyStr(p[ProxyKey[proxy_types[j]]])}}

AllReferencesResolve(p) ==
  \A ref \in References(p) : \E r \in Catalogue[ref[1]] : r.name = ref[2]

ListOf(o) == IF o.isNone THEN <<>> ELSE o.items

\* a remote record r carries the values the desired state p asks for
EchoesDesired(r, p) ==
  /\ r["name"] = p.name
  /\ \A k \in copied_keys \ {"domains"} : r[k] = p[k]
  /\ r["from"] = p.ip_from
  /\ r["to"] = p.ip_to
  /\ Names(r["domains"]) = ListOf(p.domains)
  /\ Names(r["organizations"]) = ListOf(p.organizations)
  /\ Names(r["locations"]) = ListOf(p.locations)
  /\ \A i \in 1..Len(proxy_types) :
       LET name == p[ProxyKey[proxy_types[i]]]
       IN  IF TruthyStr(name)
           THEN \E x \in Catalogue["smart_proxies"] :
                  x.name = name /\ r[IdKey[proxy_types[i]]] = x.id
           ELSE r[IdKey[proxy_types[i]]] = None

CreatedAndReported ==
  /\ \E i \in 1..Len(calls) :
       calls[i].op = "create_subnet" /\ calls[i].arg = params.name /\ calls[i].out = "ok"
  /\ result.kind = "ok"
  /\ result.changed
  /\ result.subnet # <<>>
  /\ result.subnet[1] \in remote
  /\ result.subnet[1] \notin pre
  /\ EchoesDesired(result.subnet[1], params)

DeletedAndReported ==
  \E R \in Existing(params.name) :
    /\ \E i \in 1..Len(calls) :
         calls[i].op = "delete_subnet" /\ calls[i].id = R["id"] /\ calls[i].out = "ok"
    /\ result.kind = "ok"
    /\ result.changed
    /\ result.subnet = <<R>>
    /\ R \notin remote

----------------------------------------------------------------------------
(* C1 *)

\* C1 as stated: state = present, no subnet of that name, no client call
\* raises: ensure creates the subnet and reports changed = true.
C1_Original ==
  (Finished /\ params.state = "present" /\ Existing(params.name) = {} /\ ~ClientRaised)
    => CreatedAndReported

\* C1: if state = present, no remote subnet is named D.name, every named
\* reference of D resolves and no client call raises, ensure issues
\* create_subnet with the desired data and reports changed = true with the
\* created record.
C1_CreateWhenMissing ==
  (Finished /\ params.state = "present" /\ Existing(params.name) = {} /\ ~ClientRaised
     /\ AllReferencesResolve(params))
    => CreatedAndReported

C1_Witness ==
  /\ Finished /\ params.state = "present" /\ Existing(params.name) = {} /\ ~ClientRaised
  /\ AllReferencesResolve(params)
  /\ params.ip_from # None
  /\ result.changed

----------------------------------------------------------------------------
(* C2 *)

\* C2 as stated: state = absent, a subnet of that name exists, no client call
\* raises: ensure deletes it and reports changed = true, whatever else D holds.
C2_Original ==
  (Finished /\ params.state = "absent" /\ Existing(params.name) # {} /\ ~ClientRaised)
    => DeletedAndReported

\* C2: if state = absent, a remote subnet R is named D.name, every named
\* reference of D resolves and no client call raises, ensure issues
\* delete_subnet for R's id and reports changed = true with the deleted record.
C2_DeleteWhenPresent ==
  (Finished /\ params.state = "absent" /\ Existing(params.name) # {} /\ ~ClientRaised
     /\ AllReferencesResolve(params))
    => DeletedAndReported

C2_Witness ==
  /\ Finished /\ params.state = "absent" /\ Existing(params.name) # {} /\ ~ClientRaised
  /\ AllReferencesResolve(params)
  /\ result.changed
  /\ Existing(params.name) \cap remote = {}

----------------------------------------------------------------------------
(* C3 *)

\* C3: a second invocation with the same desired state, right after a
\* successful one, issues no create, update or delete and reports
\* changed = false.
C3_Idempotent ==
  (Finished /\ repeat /\ ~ClientRaised)
    => (result.kind = "ok" /\ ~result.changed /\ MutatingCalls = {})

----------------------------------------------------------------------------
(* C4 *)

\* the desired data differ from the remote record in a compared field
Differs(d, R) ==
  \/ \E key \in comparable_keys : Get(d, key) # Get(R, key)
  \/ sorted(Names(ListOf(d["domains"]))) # sorted(Names(R["domains"]))
  \/ sorted(DataNames(d, "organization_ids", "organizations")) # sorted(Names(R["organizations"]))
  \/ sorted(DataNames(d, "location_ids", "locations")) # sorted(Names(R["locations"]))

\* C4: with an existing subnet and state = present, ensure issues exactly one
\* update_subnet for its id and reports changed = true when a compared field
\* differs, and issues no mutating call and reports changed = false otherwise.
C4_UpdateIffDiffers ==
  (Finished /\ params.state = "present" /\ ~ClientRaised /\ AllReferencesResolve(params)
     /\ ~params.domains.isNone)
    => \A R \in Existing(params.name) :
         IF Differs(data, R)
         THEN /\ Cardinality(MutatingCalls) = 1
              /\ \A i \in MutatingCalls : calls[i].op = "update_subnet" /\ calls[i].id = R["id"]
              /\ result.kind = "ok" /\ result.changed
         ELSE /\ MutatingCalls = {}
              /\ result.kind = "ok" /\ ~result.changed

----------------------------------------------------------------------------
(* C5 *)

\* C5: when a reference lookup finds nothing, the invocation ends in an error
\* naming the resource type and the name, and no create, update or delete is
\* issued; a desired state with an unresolvable reference never gets a
\* mutating call, for either state and with or without an existing subnet.
C5_ReferenceNotFound ==
  Finished =>
    /\ \A i \in 1..Len(calls) :
         (calls[i].op = "search_resource" /\ calls[i].out = "none")
           => /\ result.kind = "error"
              /\ result.err.msg = "Could not find resource type"
              /\ result.err.resource_type = calls[i].type
              /\ result.err.spec = calls[i].arg
              /\ MutatingCalls = {}
              /\ remote = pre
    /\ ~AllReferencesResolve(params)
         => (result.kind = "error" /\ MutatingCalls = {} /\ remote = pre)

C5_Witness ==
  /\ Finished
  /\ Existing(params.name) # {}
  /\ \E i \in 1..Len(calls) :
       calls[i].op = "search_resource" /\ calls[i].out = "none" /\ calls[i].type = "smart_proxies"
  /\ result.kind = "error"

----------------------------------------------------------------------------
(* C6 *)

\* C6: an invocation issues at most one mutating call and ends in one of:
\* changed = true after the one successful mutating call, with its record;
\* changed = false with no mutating call; an error with no changed flag and
\* no successful mutation.
C6_OneMutationThreeOutcomes ==
  /\ Cardinality(MutatingCalls) <= 1
  /\ Finished =>
       \/ /\ result.kind = "ok" /\ result.changed
          /\ Cardinality(MutatingCalls) = 1
          /\ \A i \in MutatingCalls : calls[i].out = "ok"
          /\ result.subnet # <<>>
          /\ remote # pre
       \/ /\ result.kind = "ok" /\ ~result.changed
          /\ MutatingCalls = {}
          /\ remote = pre
       \/ /\ result.kind = "error" /\ ~result.changed
          /\ \A i \in MutatingCalls : calls[i].out = "raised"
          /\ remote = pre

C6_Witness ==
  /\ Finished
  /\ result.kind = "error"
  /\ MutatingCalls # {}

----------------------------------------------------------------------------
(* C7 *)

\* C7: domains_equal returns true exactly when the sorted names of
\* data['domains'] equal the sorted names of subnet['domains'].
C7_SortedNamesEqual ==
  (pc = "compared" /\ ~data["domains"].isNone)
    => /\ ~compared[1].raises
       /\ compared[1].value <=>
            (sorted(Names(data["domains"].items)) = sorted(Names(subnet[1]["domains"])))

----------------------------------------------------------------------------
(* C8 *)

----------------------------------------------------------------------------
(* C9 *)

\* C9: state = absent with no subnet of that name (references resolve, no call
\* raises): no mutating call, the remote subnets are unchanged and the result
\* is changed = false with a null record; so an absent run repeated after a
\* successful one reports changed = false.
C9_AbsentAndMissing ==
  /\ (Finished /\ params.state = "absent" /\ Existing(params.name) = {}
        /\ AllReferencesResolve(params) /\ ~ClientRaised)
       => (MutatingCalls = {} /\ remote = pre /\ result = exit_json(FALSE, <<>>))
  /\ (Finished /\ params.state = "absent" /\ repeat /\ ~ClientRaised)
       => (result.kind = "ok" /\ ~result.changed)

C9_Witness ==
  /\ Finished /\ params.state = "absent" /\ repeat /\ ~ClientRaised
  /\ Existing(params.name) = {}
  /\ nextId > 1
  /\ result = exit_json(FALSE, <<>>)

----------------------------------------------------------------------------
(* C10 *)

\* C10: the remote never holds two subnets of the same name.
C10_UniqueNames ==
  \A r1, r2 \in remote : r1["name"] = r2["name"] => r1 = r2

C10_Witness ==
  /\ Finished
  /\ Cardinality(remote) = 2
  /\ \E i \in 1..Len(calls) : calls[i].op = "create_subnet" /\ calls[i].out = "ok"

====
